---- MODULE Spec2Model ----
(***************************************************************************)
(* MolViz (src/molviz.py): the mol2 import operator of the Blender add-on. *)
(*                                                                         *)
(* The scene is the sequence `objects` of molecule empties, each with its  *)
(* child objects (atom spheres and bond cylinders) and its list of         *)
(* element materials.  One import runs MoleculeVisualizer_ImportMolecule   *)
(* .execute over the lines of a file, one line of the file per step.       *)
(*                                                                         *)
(* A token is a sequence of one-character strings, a line is the marker    *)
(* substring it contains (if any) and the tokens line.strip().split()      *)
(* yields.  A material is a handle (its number in bpy.data.materials): two *)
(* objects have the same colour when they carry the same material.         *)
(* Coordinates are integers: object locations are single-precision scene   *)
(* vectors, so the squares create_bond takes of their differences neither  *)
(* underflow nor overflow in a double and dist is 0 exactly when the       *)
(* integer sum of squares is.                                              *)
(***************************************************************************)
EXTENDS Integers, Sequences, FiniteSets, TLC

\* ------------------------------------------------------------------ bounds

\* atom lines of one atom section, bond lines of one bond section
MaxAtoms == 2
MaxBonds == 2
\* largest coordinate of the points given to create_bond on its own
MaxCoord == 1
\* longest string given to parse_element_string on its own
MaxLen == 4

\* ------------------------------------------------------------- characters

Digits == {"0", "1", "2", "3", "4", "5", "6", "7", "8", "9"}
Uppers == {"A", "B", "C", "D", "E", "F", "G", "H", "I", "J", "K", "L", "M",
           "N", "O", "P", "Q", "R", "S", "T", "U", "V", "W", "X", "Y", "Z"}
Lowers == {"a", "b", "c", "d", "e", "f", "g", "h", "i", "j", "k", "l", "m",
           "n", "o", "p", "q", "r", "s", "t", "u", "v", "w", "x", "y", "z"}

isdigit(ch) == ch \in Digits
isupper(ch) == ch \in Uppers
islower(ch) == ch \in Lowers

DigitValue(ch) ==
    CASE ch = "0" -> 0 [] ch = "1" -> 1 [] ch = "2" -> 2 [] ch = "3" -> 3
      [] ch = "4" -> 4 [] ch = "5" -> 5 [] ch = "6" -> 6 [] ch = "7" -> 7
      [] ch = "8" -> 8 [] ch = "9" -> 9

\* int(token) and float(token) raise ValueError unless the token is a number;
\* the tokens of the model are digit strings or hold a letter.
IsNumber(token) == Len(token) > 0 /\ \A k \in 1..Len(token) : isdigit(token[k])

RECURSIVE int(_)
int(token) ==
    IF token = <<>> THEN 0
    ELSE 10 * int(SubSeq(token, 1, Len(token) - 1)) + DigitValue(token[Len(token)])

float(token) == int(token)

\* ---------------------------------------------------- parse_element_string

RECURSIVE ScanElement(_, _, _)
ScanElement(cleaned_string, k, first) ==
    IF k > Len(cleaned_string) THEN first
    ELSE LET ch == cleaned_string[k] IN
         IF first = <<>> /\ isupper(ch) THEN ScanElement(cleaned_string, k + 1, <<ch>>)
         ELSE IF first # <<>> /\ islower(ch) THEN first \o <<ch>>
         ELSE ScanElement(cleaned_string, k + 1, first)

NotDigit(ch) == ~isdigit(ch)

\* parse_element_string taking for second character only the one that follows
\* the first
parse_element_string_adjacent(string) ==
    LET cleaned_string == SelectSeq(string, NotDigit)
        ups == {k \in 1..Len(cleaned_string) : isupper(cleaned_string[k])}
    IN  IF ups = {} THEN <<>>
        ELSE LET p == CHOOSE k \in ups : \A h \in ups : k <= h
             IN  IF p < Len(cleaned_string) /\ islower(cleaned_string[p + 1])
                 THEN <<cleaned_string[p], cleaned_string[p + 1]>>
                 ELSE <<cleaned_string[p]>>

parse_element_string(string) == ScanElement(SelectSeq(string, NotDigit), 1, <<>>)

\* ------------------------------------------------------------------ lines

MOLECULE == "@<TRIPOS>MOLECULE"
ATOM == "@<TRIPOS>ATOM"
BOND == "@<TRIPOS>BOND"

\* marker in sline
Contains(line, marker) == line.marker = marker

MarkerLine(marker) == [marker |-> marker, f |-> << <<"@">> >>]
DataLine(f) == [marker |-> "", f |-> f]

T0 == <<"0">>
T1 == <<"1">>
T2 == <<"2">>
T3 == <<"3">>
TC3 == <<"C", ".", "3">>
TO2 == <<"O", "2">>

\* "1 C.3 0 0 0", "2 O2 0 0 1" and a blank line
AtomLine1 == DataLine(<<T1, TC3, T0, T0, T0>>)
AtomLine2 == DataLine(<<T2, TO2, T0, T0, T1>>)
BlankLine == DataLine(<<>>)
\* "3 3 1 0 0": an atom whose type holds no letter
AtomLine3 == DataLine(<<T3, T3, T1, T0, T0>>)
\* "1 1 2 1", "2 2 1 1", "2 1 1 1" (a bond of atom 1 with itself) and
\* "3 1 3 1" (no atom 3)
BondLine12 == DataLine(<<T1, T1, T2, T1>>)
BondLine21 == DataLine(<<T2, T2, T1, T1>>)
BondLine11 == DataLine(<<T2, T1, T1, T1>>)
BondLine13 == DataLine(<<T3, T1, T3, T1>>)
\* "1 1 2": a bond line of three fields
ShortBondLine == DataLine(<<T1, T1, T2>>)

AtomLines == {AtomLine1, AtomLine2, BlankLine}
\* the bond lines of well-formed files, and those that end the import where
\* they are read (no line after them in their section is ever read)
BondLines == {BondLine12, BondLine21}
EndingBondLines == {BondLine11, BondLine13}

\* ------------------------------------------------------------- create_bond

\* math.sqrt, rounded down: 0 exactly for 0
Sqrt(n) == CHOOSE r \in 0..n : r * r <= n /\ (r + 1) * (r + 1) > n

None == <<>>

\* create_bond with dz left out of the distance
create_bond_flat(source, target) ==
    LET dx == target[1] - source[1]
        dy == target[2] - source[2]
    IN  IF Sqrt(dx * dx + dy * dy) = 0 THEN None
        ELSE << [kind |-> "cylinder", atom_id |-> -1, element |-> <<>>,
                 location |-> <<dx + 2 * source[1], dy + 2 * source[2], 2 * source[3]>>,
                 material |-> 0, listed |-> FALSE,
                 bond_id |-> -1, source |-> 0, target |-> 0,
                 depth |-> Sqrt(dx * dx + dy * dy), line |-> 0] >>

\* None, or <<cylinder>>: the cylinder primitive of depth dist; its location
\* is kept doubled, (dx + 2*x1, ...) for (dx/2 + x1, ...), to stay an integer
create_bond(source, target) ==
    LET dx == target[1] - source[1]
        dy == target[2] - source[2]
        dz == target[3] - source[3]
        dist == Sqrt(dx * dx + dy * dy + dz * dz)
    IN  IF dist = 0 THEN None
        ELSE << [kind |-> "cylinder", atom_id |-> -1, element |-> <<>>,
                 location |-> <<dx + 2 * source[1], dy + 2 * source[2], dz + 2 * source[3]>>,
                 material |-> 0, listed |-> FALSE,
                 bond_id |-> -1, source |-> 0, target |-> 0,
                 depth |-> dist, line |-> 0] >>

\* the sphere create_atom links to the scene, parented to the molecule
create_atom(location) ==
    [kind |-> "sphere", atom_id |-> -1, element |-> <<>>,
     location |-> location, material |-> 0, listed |-> FALSE,
     bond_id |-> -1, source |-> 0, target |-> 0, depth |-> 0, line |-> 0]

\* ------------------------------------------------------------ collections

\* a molecule empty: its children in creation order; the atoms collection
\* MolViz_MoleculeProperties.atoms holds the children that are listed
IsListed(obj) == obj.listed
Atoms(mol) == SelectSeq(mol.children, IsListed)
IsBond(obj) == obj.kind = "cylinder"
Bonds(mol) == SelectSeq(mol.children, IsBond)

\* empty_add giving an empty that has an element material already
empty_add_seeded(i) ==
    [children |-> <<>>,
     element_materials |-> <<[element |-> <<"C">>, material |-> 0]>>,
     pass |-> i]

\* pass: the pass of the import that created the empty (-1: an earlier import)
empty_add(i) == [children |-> <<>>, element_materials |-> <<>>, pass |-> i]

\* molviz_add_atom returning before it adds
molviz_add_atom_never(mol, k) == mol

\* molviz_add_atom: the molecule with child k in its atoms collection
molviz_add_atom(mol, k) ==
    IF mol.children[k].listed THEN mol
    ELSE [mol EXCEPT !.children[k].listed = TRUE]

Elements(collection) == {collection[k].element : k \in 1..Len(collection)}

\* molviz_add_element_material returning before it adds
molviz_add_element_material_never(collection, elmat) == collection

\* molviz_add_element_material: the collection afterwards
molviz_add_element_material(collection, elmat) ==
    IF \E k \in 1..Len(collection) : collection[k].element = elmat[1]
    THEN collection
    ELSE Append(collection, [element |-> elmat[1], material |-> elmat[2]])

\* the index among mol.children of the first listed atom with this id, 0 for None
find_atom_from_id(mol, id) ==
    LET hits == {k \in 1..Len(mol.children) :
                    mol.children[k].listed /\ mol.children[k].atom_id = id}
    IN  IF hits = {} THEN 0
        ELSE CHOOSE k \in hits : \A h \in hits : k <= h

\* find_material_from_element giving the first entry's material for any element
find_material_from_element_head(collection, element) ==
    IF collection = <<>> THEN 0 ELSE collection[1].material

\* the material of the first entry for the element, 0 for None
find_material_from_element(collection, element) ==
    LET hits == {k \in 1..Len(collection) : collection[k].element = element}
    IN  IF hits = {} THEN 0
        ELSE collection[CHOOSE k \in hits : \A h \in hits : k <= h].material

\* ----------------------------------------------- list_materials_in_molecule

\* [raised, elements]: raised when cline[1] is read of a line with < 2 fields
RECURSIVE ListMaterials(_, _, _, _)
ListMaterials(ls, k, atoms, elements) ==
    IF k > Len(ls) THEN [raised |-> FALSE, elements |-> elements]
    ELSE LET sline == ls[k] IN
         IF Contains(sline, ATOM) THEN ListMaterials(ls, k + 1, TRUE, elements)
         ELSE IF Contains(sline, BOND) THEN [raised |-> FALSE, elements |-> elements]
         ELSE IF atoms THEN
              LET cline == sline.f IN
              IF Len(cline) < 2 THEN [raised |-> TRUE, elements |-> elements]
              ELSE LET element == parse_element_string(cline[2]) IN
                   IF Len(cline) >= 5 /\ ~(\E e \in 1..Len(elements) : elements[e] = element)
                   THEN ListMaterials(ls, k + 1, atoms, Append(elements, element))
                   ELSE ListMaterials(ls, k + 1, atoms, elements)
         ELSE ListMaterials(ls, k + 1, atoms, elements)

list_materials_in_molecule(ls) == ListMaterials(ls, 1, FALSE, <<>>)

\* --------------------------------------------------------- import_materials

\* the entries of one molecule, in order, offered to the collection
RECURSIVE ImportFrom(_, _, _, _)
ImportFrom(collection, element_materials, k, elements_in_molecule) ==
    IF k > Len(element_materials) THEN collection
    ELSE LET el == element_materials[k] IN
         ImportFrom(
            IF (\E e \in 1..Len(elements_in_molecule) : elements_in_molecule[e] = el.element)
               /\ el.element \notin Elements(collection)
            THEN molviz_add_element_material(collection, <<el.element, el.material>>)
            ELSE collection,
            element_materials, k + 1, elements_in_molecule)

RECURSIVE ImportAll(_, _, _, _)
ImportAll(collection, molecules, m, elements_in_molecule) ==
    IF m > Len(molecules) THEN collection
    ELSE ImportAll(
            ImportFrom(collection, molecules[m].element_materials, 1, elements_in_molecule),
            molecules, m + 1, elements_in_molecule)

HasAtoms(mol) == Len(Atoms(mol)) > 0

\* import_materials going through the molecules from the last to the first
import_materials_last(objs, mol, elements_in_molecule) ==
    LET molecules == SelectSeq(objs, HasAtoms)
    IN  ImportAll(objs[mol].element_materials,
                  [m \in 1..Len(molecules) |-> molecules[Len(molecules) + 1 - m]],
                  1, elements_in_molecule)

\* the element materials of objs[mol] after import_materials
import_materials(objs, mol, elements_in_molecule) ==
    ImportAll(objs[mol].element_materials, SelectSeq(objs, HasAtoms), 1, elements_in_molecule)

\* import_materials taking the entries it imports out of their molecules
import_into_moving(objs, mol, elements_in_molecule) ==
    LET imported == Elements(import_materials(objs, mol, elements_in_molecule))
        Kept(el) == el.element \notin imported
    IN  [m \in 1..Len(objs) |->
            IF m = mol
            THEN [objs[m] EXCEPT !.element_materials =
                      import_materials(objs, mol, elements_in_molecule)]
            ELSE [objs[m] EXCEPT !.element_materials = SelectSeq(@, Kept)]]

\* the scene after import_materials(objs[mol], elements_in_molecule)
import_into(objs, mol, elements_in_molecule) ==
    [objs EXCEPT ![mol].element_materials =
        import_materials(objs, mol, elements_in_molecule)]

\* ---------------------------------------- check_element_and_assign_material

\* check_element_and_assign_material making a new material for every atom
check_element_and_assign_material_new(element_materials, element, n) ==
    [element_materials |->
         Append(element_materials, [element |-> element, material |-> n + 1]),
     material |-> n + 1, created |-> TRUE]

\* [element_materials, material, created]: the molecule's collection
\* afterwards, the material appended to the atom, and whether
\* bpy.data.materials.new made it (n is the number of materials so far)
check_element_and_assign_material(element_materials, element, n) ==
    IF element \notin Elements(element_materials)
    THEN [element_materials |->
              molviz_add_element_material(element_materials, <<element, n + 1>>),
          material |-> n + 1, created |-> TRUE]
    ELSE [element_materials |-> element_materials,
          material |-> find_material_from_element(element_materials, element),
          created |-> FALSE]

\* clean deleting the first object of the scene, and clean deleting nothing
clean_first(objs, mol) == SubSeq(objs, 2, Len(objs))
clean_nothing(objs, mol) == objs

\* clean: the scene without the molecule and its children
clean(objs, mol) == SubSeq(objs, 1, mol - 1) \o SubSeq(objs, mol + 1, Len(objs))

\* ------------------------------------------------- one record line (379-407)

\* Create atom (380-389): [mol, materials, exception]
CreateAtomFromLine(mol, cline, n, lineno) ==
    IF ~(IsNumber(cline[3]) /\ IsNumber(cline[4]) /\ IsNumber(cline[5]))
    THEN [mol |-> mol, materials |-> n, exception |-> "ValueError"]
    ELSE
    LET location == <<float(cline[3]), float(cline[4]), float(cline[5])>>
        atom == [create_atom(location) EXCEPT !.line = lineno]
        mol1 == [mol EXCEPT !.children = Append(@, atom)]
        k == Len(mol1.children)
    IN  IF ~IsNumber(cline[1])
        THEN [mol |-> mol1, materials |-> n, exception |-> "ValueError"]
        ELSE
        LET element == parse_element_string(cline[2])
            mol2 == [mol1 EXCEPT !.children[k].atom_id = int(cline[1]),
                                 !.children[k].element = element]
            mol3 == molviz_add_atom(mol2, k)
            assigned == check_element_and_assign_material(mol3.element_materials, element, n)
        IN  [mol |-> [mol3 EXCEPT !.children[k].material = assigned.material,
                                  !.element_materials = assigned.element_materials],
             materials |-> IF assigned.created THEN n + 1 ELSE n,
             exception |-> ""]

\* Create bond (391-407): [mol, exception, degenerate]
CreateBondFromLine(mol, cline, lineno) ==
    IF ~(IsNumber(cline[2]) /\ IsNumber(cline[3]))
    THEN [mol |-> mol, exception |-> "ValueError", degenerate |-> FALSE]
    ELSE
    LET source == find_atom_from_id(mol, int(cline[2]))
        target == find_atom_from_id(mol, int(cline[3]))
    IN  IF source = 0 \/ target = 0
        THEN [mol |-> mol, exception |-> "AttributeError", degenerate |-> FALSE]
        ELSE
        LET bond == create_bond(mol.children[source].location, mol.children[target].location)
        IN  IF bond = None
            THEN [mol |-> mol, exception |-> "", degenerate |-> TRUE]
            ELSE
            LET cylinder == [bond[1] EXCEPT !.source = source, !.target = target,
                                            !.line = lineno]
            IN  IF ~IsNumber(cline[1])
                THEN [mol |-> [mol EXCEPT !.children = Append(@, cylinder)],
                      exception |-> "ValueError", degenerate |-> FALSE]
                ELSE [mol |-> [mol EXCEPT !.children =
                                  Append(@, [cylinder EXCEPT !.bond_id = int(cline[1])])],
                      exception |-> "", degenerate |-> FALSE]

\* ProcessLine asking 5 fields of a bond line
ProcessLine_five(mol, cline, atoms, bonds, n, lineno) ==
    LET a == IF atoms /\ Len(cline) >= 5
             THEN CreateAtomFromLine(mol, cline, n, lineno)
             ELSE [mol |-> mol, materials |-> n, exception |-> ""]
    IN  IF a.exception # ""
        THEN [mol |-> a.mol, materials |-> a.materials,
              exception |-> a.exception, degenerate |-> FALSE]
        ELSE IF bonds /\ Len(cline) >= 5
        THEN LET b == CreateBondFromLine(a.mol, cline, lineno)
             IN  [mol |-> b.mol, materials |-> a.materials,
                  exception |-> b.exception, degenerate |-> b.degenerate]
        ELSE [mol |-> a.mol, materials |-> a.materials,
              exception |-> "", degenerate |-> FALSE]

\* a line that is no marker line: [mol, materials, exception, degenerate]
ProcessLine(mol, cline, atoms, bonds, n, lineno) ==
    LET a == IF atoms /\ Len(cline) >= 5
             THEN CreateAtomFromLine(mol, cline, n, lineno)
             ELSE [mol |-> mol, materials |-> n, exception |-> ""]
    IN  IF a.exception # ""
        THEN [mol |-> a.mol, materials |-> a.materials,
              exception |-> a.exception, degenerate |-> FALSE]
        ELSE IF bonds /\ Len(cline) >= 4
        THEN LET b == CreateBondFromLine(a.mol, cline, lineno)
             IN  [mol |-> b.mol, materials |-> a.materials,
                  exception |-> b.exception, degenerate |-> b.degenerate]
        ELSE [mol |-> a.mol, materials |-> a.materials,
              exception |-> "", degenerate |-> FALSE]

\* ------------------------------------------------------------------ state

VARIABLES
    lines,                \* f.readlines()
    readable,             \* whether open(filepath) succeeds
    same_colors,          \* settings.same_colors
    objects,              \* the molecule empties of bpy.data.objects, with their children
    materials,            \* len(bpy.data.materials)
    pc,                   \* "start", "pass" (top of the loop over molecules), "scan"
                          \* (in the loop over lines), "finished", "raised", "geometry"
    exception,            \* the exception that left execute, "" if none
    report,               \* the level of the last self.report, "" if none
    num_mol, i, starting_line, j, atoms, bonds,     \* the locals of execute
    empty,                \* the index in objects of the molecule being built
    elements_in_molecule, \* the result of the last list_materials_in_molecule
    passes,               \* history: for each pass, the offset where it started, the
                          \* offset where it stopped and by what ("molecule": the
                          \* break, "end": no line left, "error")
    probe                 \* a call of one function on its own: its arguments
                          \* and what it returned

vars == <<lines, readable, same_colors, objects, materials, pc, exception, report,
          num_mol, i, starting_line, j, atoms, bonds, empty, elements_in_molecule,
          passes, probe>>

\* ------------------------------------------------------------------ files

SeqsUpTo(S, n) == UNION {[1..k -> S] : k \in 0..n}

\* A block is what a file holds of one molecule: the molecule line, the atom
\* section and the bond section, each of them present or not.
Headers == {<<>>, <<MarkerLine(MOLECULE)>>}
AtomSections == {<<>>} \cup {<<MarkerLine(ATOM)>> \o s : s \in SeqsUpTo(AtomLines, MaxAtoms)}
BondRuns ==
    SeqsUpTo(BondLines, MaxBonds)
        \cup {Append(s, b) : s \in SeqsUpTo(BondLines, MaxBonds - 1), b \in EndingBondLines}
BondSections == {<<>>} \cup {<<MarkerLine(BOND)>> \o s : s \in BondRuns}
Blocks == {h \o a \o b : h \in Headers, a \in AtomSections, b \in BondSections}

\* the blocks of a molecule written without fault
PlainAtomSections == {<<>>, <<MarkerLine(ATOM), AtomLine1, AtomLine2>>}
PlainBondSections ==
    {<<>>, <<MarkerLine(BOND), BondLine12>>,
     <<MarkerLine(BOND), BlankLine, ShortBondLine, BondLine21>>}
PlainBlocks == {h \o a \o b : h \in Headers, a \in PlainAtomSections, b \in PlainBondSections}

\* a file: any block before or after a plain one
Files(p, r) == {p \o r, r \o p}

\* The scene before the import: empty, or the molecule an earlier import of
\* the lines "1 C.3 0 0 0", "2 O2 0 0 1" and the bond "1 1 2 1" has built.
PriorAtom1 == CreateAtomFromLine(empty_add(-1), AtomLine1.f, 0, 0)
PriorAtom2 == CreateAtomFromLine(PriorAtom1.mol, AtomLine2.f, PriorAtom1.materials, 0)
PriorMolecule == CreateBondFromLine(PriorAtom2.mol, BondLine12.f, 0).mol
PriorScenes == {<<>>, <<PriorMolecule>>}

\* A second earlier molecule, imported without same_colors from the lines
\* "2 O2 0 0 1" and "3 3 1 0 0": it has a material of its own for O.
PriorAtomO == CreateAtomFromLine(empty_add(-2), AtomLine2.f, PriorAtom2.materials, 0)
PriorAtomE == CreateAtomFromLine(PriorAtomO.mol, AtomLine3.f, PriorAtomO.materials, 0)
PriorMolecule2 == PriorAtomE.mol

\* The files and scenes of the colour palette: a molecule of up to MaxAtoms
\* atoms of the elements C, O and "", without a bond marker, with one, or
\* with one and a second atom section behind it, and possibly a second
\* molecule; none, one or both of the earlier molecules in the scene, in
\* either order of bpy.data.objects.
PaletteAtomLines == {AtomLine1, AtomLine2, AtomLine3}
PaletteTails ==
    {<<>>, <<MarkerLine(BOND)>>, <<MarkerLine(BOND), MarkerLine(ATOM), AtomLine3>>}
PaletteBlocks ==
    {<<MarkerLine(MOLECULE), MarkerLine(ATOM)>> \o a \o b :
        a \in SeqsUpTo(PaletteAtomLines, MaxAtoms) \ {<<>>}, b \in PaletteTails}
\* the second molecule of a file: two atoms, the second one C
PaletteSeconds ==
    {<<MarkerLine(MOLECULE), MarkerLine(ATOM), a, AtomLine1>> \o b :
        a \in PaletteAtomLines, b \in {<<>>, <<MarkerLine(BOND)>>}}
PaletteFiles == PaletteBlocks \cup {p \o q : p \in PaletteBlocks, q \in PaletteSeconds}
PaletteScenes ==
    {<<>>, <<PriorMolecule>>, <<PriorMolecule, PriorMolecule2>>,
     <<PriorMolecule2, PriorMolecule>>}

Points == {<<x, y, z>> : x \in -MaxCoord..MaxCoord, y \in -MaxCoord..MaxCoord,
                         z \in -MaxCoord..MaxCoord}

NoProbe == [source |-> <<0, 0, 0>>, target |-> <<0, 0, 0>>, called |-> FALSE, bond |-> None]

Locals ==
    /\ exception = ""
    /\ report = ""
    /\ num_mol = 0
    /\ i = 0
    /\ starting_line = 0
    /\ j = 0
    /\ atoms = FALSE
    /\ bonds = FALSE
    /\ empty = 0
    /\ elements_in_molecule = <<>>
    /\ passes = <<>>

Init ==
    /\ \/ /\ readable = TRUE
          /\ \E p \in PlainBlocks, r \in Blocks : lines \in Files(p, r)
       \/ readable = FALSE /\ lines = <<>>
    /\ same_colors \in BOOLEAN
    /\ objects \in PriorScenes
    /\ materials = IF objects = <<>> THEN 0 ELSE PriorAtom2.materials
    /\ pc = "start"
    /\ Locals
    /\ probe = NoProbe

PaletteInit ==
    /\ readable = TRUE
    /\ lines \in PaletteFiles
    /\ same_colors \in BOOLEAN
    /\ objects \in PaletteScenes
    /\ materials = (IF objects = <<>> THEN 0
                    ELSE IF Len(objects) = 1 THEN PriorAtom2.materials
                    ELSE PriorAtomE.materials)
    /\ pc = "start"
    /\ Locals
    /\ probe = NoProbe

\* ---------------------------------------------------------------- execute

\* the count taking every marker line for a molecule
CountMarkerLines(ls) == Cardinality({k \in 1..Len(ls) : ls[k].marker # ""})

CountMolecules(ls) == Cardinality({k \in 1..Len(ls) : Contains(ls[k], MOLECULE)})

\* 321-345: open the file, count the molecules
Start ==
    /\ pc = "start"
    /\ IF ~readable
       THEN /\ report' = "ERROR"
            /\ pc' = "finished"
            /\ UNCHANGED <<num_mol>>
       ELSE IF CountMolecules(lines) = 0
       THEN /\ report' = "WARNING"
            /\ pc' = "finished"
            /\ num_mol' = 0
       ELSE /\ num_mol' = CountMolecules(lines)
            /\ pc' = "pass"
            /\ UNCHANGED report
    /\ starting_line' = 0
    /\ i' = 0
    /\ UNCHANGED <<lines, readable, same_colors, objects, materials, exception,
                   j, atoms, bonds, empty, elements_in_molecule, passes, probe>>

\* 347-363: the empty of molecule i, its colour palette, the flags
BeginPass ==
    /\ pc = "pass"
    /\ i < num_mol
    /\ LET objs == Append(objects, empty_add(i))
           e == Len(objs)
           listed == list_materials_in_molecule(SubSeq(lines, starting_line + 1, Len(lines)))
       IN  /\ empty' = e
           /\ IF ~same_colors
              THEN /\ objects' = objs
                   /\ pc' = "scan"
                   /\ UNCHANGED <<exception, elements_in_molecule>>
              ELSE IF listed.raised
              THEN /\ objects' = objs
                   /\ pc' = "raised"
                   /\ exception' = "IndexError"
                   /\ UNCHANGED elements_in_molecule
              ELSE IF Len(objs[e].element_materials) # 0
              THEN /\ objects' = objs
                   /\ pc' = "raised"
                   /\ exception' = "AssertionError"
                   /\ elements_in_molecule' = listed.elements
              ELSE /\ objects' = import_into(objs, e, listed.elements)
                   /\ pc' = "scan"
                   /\ elements_in_molecule' = listed.elements
                   /\ UNCHANGED exception
    /\ atoms' = FALSE
    /\ bonds' = FALSE
    /\ j' = 0
    /\ passes' = Append(passes, [start |-> starting_line, stop |-> -1, by |-> ""])
    /\ UNCHANGED <<lines, readable, same_colors, materials, report, num_mol, i,
                   starting_line, probe>>

sline == lines[starting_line + j + 1]

\* the break taking the line after the one that ends the molecule
BreakOffset_after(start, k) == start + k + 1

\* 368: where the next pass starts, the line that ends this one
BreakOffset(start, k) == start + k

\* 367-369: the line ends the molecule
MoleculeEnds ==
    /\ pc = "scan"
    /\ starting_line + j < Len(lines)
    /\ Contains(sline, MOLECULE) /\ bonds
    /\ starting_line' = BreakOffset(starting_line, j)
    /\ i' = i + 1
    /\ pc' = "pass"
    /\ passes' = [passes EXCEPT ![Len(passes)].stop = starting_line + j,
                                ![Len(passes)].by = "molecule"]
    /\ UNCHANGED <<lines, readable, same_colors, objects, materials, exception, report,
                   num_mol, j, atoms, bonds, empty, elements_in_molecule, probe>>

\* 371-373
AtomSectionStarts ==
    /\ pc = "scan"
    /\ starting_line + j < Len(lines)
    /\ ~(Contains(sline, MOLECULE) /\ bonds)
    /\ Contains(sline, ATOM)
    /\ atoms' = TRUE
    /\ j' = j + 1
    /\ UNCHANGED <<lines, readable, same_colors, objects, materials, pc, exception,
                   report, num_mol, i, starting_line, bonds, empty,
                   elements_in_molecule, passes, probe>>

\* 375-378
BondSectionStarts ==
    /\ pc = "scan"
    /\ starting_line + j < Len(lines)
    /\ ~(Contains(sline, MOLECULE) /\ bonds)
    /\ ~Contains(sline, ATOM)
    /\ Contains(sline, BOND)
    /\ atoms' = FALSE
    /\ bonds' = TRUE
    /\ j' = j + 1
    /\ UNCHANGED <<lines, readable, same_colors, objects, materials, pc, exception,
                   report, num_mol, i, starting_line, empty, elements_in_molecule,
                   passes, probe>>

\* 380-407: any other line
ReadLine ==
    /\ pc = "scan"
    /\ starting_line + j < Len(lines)
    /\ ~(Contains(sline, MOLECULE) /\ bonds)
    /\ ~Contains(sline, ATOM)
    /\ ~Contains(sline, BOND)
    /\ LET r == ProcessLine(objects[empty], sline.f, atoms, bonds, materials,
                            starting_line + j + 1)
           objs == [objects EXCEPT ![empty] = r.mol]
       IN  /\ materials' = r.materials
           /\ IF r.exception # ""
              THEN /\ objects' = objs
                   /\ pc' = "raised"
                   /\ exception' = r.exception
                   /\ passes' = [passes EXCEPT ![Len(passes)].stop = starting_line + j,
                                               ![Len(passes)].by = "error"]
                   /\ UNCHANGED <<report, j>>
              ELSE IF r.degenerate
              THEN /\ report' = "ERROR"
                   /\ objects' = clean(objs, empty)
                   /\ pc' = "finished"
                   /\ passes' = [passes EXCEPT ![Len(passes)].stop = starting_line + j,
                                               ![Len(passes)].by = "error"]
                   /\ UNCHANGED <<exception, j>>
              ELSE /\ objects' = objs
                   /\ j' = j + 1
                   /\ UNCHANGED <<pc, exception, report, passes>>
    /\ UNCHANGED <<lines, readable, same_colors, num_mol, i, starting_line, atoms,
                   bonds, empty, elements_in_molecule, probe>>

\* the loop over the lines is exhausted: starting_line stays as it is
EndOfLines ==
    /\ pc = "scan"
    /\ starting_line + j = Len(lines)
    /\ i' = i + 1
    /\ pc' = "pass"
    /\ passes' = [passes EXCEPT ![Len(passes)].stop = starting_line + j,
                                ![Len(passes)].by = "end"]
    /\ UNCHANGED <<lines, readable, same_colors, objects, materials, exception, report,
                   num_mol, starting_line, j, atoms, bonds, empty, elements_in_molecule,
                   probe>>

\* 410-412
Finish ==
    /\ pc = "pass"
    /\ i = num_mol
    /\ report' = "INFO"
    /\ pc' = "finished"
    /\ UNCHANGED <<lines, readable, same_colors, objects, materials, exception,
                   num_mol, i, starting_line, j, atoms, bonds, empty,
                   elements_in_molecule, passes, probe>>

Next ==
    \/ Start
    \/ BeginPass
    \/ MoleculeEnds
    \/ AtomSectionStarts
    \/ BondSectionStarts
    \/ ReadLine
    \/ EndOfLines
    \/ Finish

Spec == Init /\ [][Next]_vars

\* the import over the files and scenes of the colour palette
PaletteSpec == PaletteInit /\ [][Next]_vars

\* ------------------------- the element materials functions on their own

\* the molecule the atom lines ls[k..] add to mol, and the materials count
RECURSIVE BuildAtoms(_, _, _, _)
BuildAtoms(mol, ls, k, n) ==
    IF k > Len(ls) THEN [mol |-> mol, materials |-> n]
    ELSE LET r == CreateAtomFromLine(mol, ls[k].f, n, 0)
         IN  BuildAtoms(r.mol, ls, k + 1, r.materials)

\* the scene earlier imports without same_colors have left: one or two
\* molecules, each of up to MaxAtoms atoms (none: an empty without atoms)
RegistryScene(a, b) ==
    LET first == BuildAtoms(empty_add(-1), a, 1, 0)
        second == BuildAtoms(empty_add(-2), b, 1, first.materials)
    IN  [objects |-> <<first.mol, second.mol>>, materials |-> second.materials]

RegistryScenes ==
    {RegistryScene(a, b) : a \in SeqsUpTo(PaletteAtomLines, MaxAtoms),
                           b \in SeqsUpTo(PaletteAtomLines, MaxAtoms)}

\* the elements parse_element_string makes of the types of PaletteAtomLines
Symbols == {parse_element_string(l.f[2]) : l \in PaletteAtomLines}

\* the lists list_materials_in_molecule can return: no element twice
ElementLists ==
    {l \in SeqsUpTo(Symbols, Cardinality(Symbols)) :
        \A a, b \in 1..Len(l) : l[a] = l[b] => a = b}

NoCall == [element |-> <<>>, returned |-> <<>>, before |-> <<>>]

RegistryInit ==
    /\ lines = <<>>
    /\ readable = TRUE
    /\ same_colors = TRUE
    /\ \E scene \in RegistryScenes :
          /\ objects = scene.objects
          /\ materials = scene.materials
    /\ Locals
    /\ \/ /\ pc = "assign"
          /\ probe \in {[NoCall EXCEPT !.element = e] : e \in Symbols}
       \/ /\ pc = "import"
          /\ probe \in {[NoCall EXCEPT !.returned = l] : l \in ElementLists}

\* check_element_and_assign_material(mol, obj) for the first molecule of the
\* scene and an atom of the element, called once more after it has returned
CallAssign ==
    /\ pc = "assign"
    /\ Len(probe.returned) < 2
    /\ LET r == check_element_and_assign_material(objects[1].element_materials,
                                                  probe.element, materials)
       IN  /\ objects' = [objects EXCEPT ![1].element_materials = r.element_materials]
           /\ materials' = (IF r.created THEN materials + 1 ELSE materials)
           /\ probe' = [probe EXCEPT !.returned = Append(@, r.material),
                                     !.before = Append(@, objects[1].element_materials)]
    /\ UNCHANGED <<lines, readable, same_colors, pc, exception, report, num_mol, i,
                   starting_line, j, atoms, bonds, empty, elements_in_molecule, passes>>

\* import_materials(mol, elements_in_molecule) for a new empty
CallImportMaterials ==
    /\ pc = "import"
    /\ LET objs == Append(objects, empty_add(0))
           e == Len(objs)
       IN  /\ empty' = e
           /\ IF Len(objs[e].element_materials) # 0
              THEN /\ objects' = objs
                   /\ exception' = "AssertionError"
                   /\ pc' = "raised"
              ELSE /\ objects' = import_into(objs, e, probe.returned)
                   /\ pc' = "imported"
                   /\ UNCHANGED exception
    /\ elements_in_molecule' = probe.returned
    /\ UNCHANGED <<lines, readable, same_colors, materials, report, num_mol, i,
                   starting_line, j, atoms, bonds, passes, probe>>

RegistrySpec == RegistryInit /\ [][CallAssign \/ CallImportMaterials]_vars

\* ---------------------------------------- parse_element_string on its own

\* the strings of up to MaxLen characters over two uppercase letters, two
\* lowercase letters, a digit and a dot, and the types "C.3", "Na", "O2",
\* "CL1" and "123"
Chars == {"C", "L", "a", "l", "1", "."}
Strings ==
    SeqsUpTo(Chars, MaxLen)
        \cup {TC3, <<"N", "a">>, TO2, <<"C", "L", "1">>, <<"1", "2", "3">>}

ElementInit ==
    /\ lines = <<>>
    /\ readable = TRUE
    /\ same_colors = TRUE
    /\ objects = <<>>
    /\ materials = 0
    /\ pc = "element"
    /\ Locals
    /\ probe \in {[string |-> string, called |-> FALSE, element |-> <<>>] :
                    string \in Strings}

CallParseElementString ==
    /\ pc = "element"
    /\ ~probe.called
    /\ probe' = [probe EXCEPT !.called = TRUE,
                              !.element = parse_element_string(probe.string)]
    /\ UNCHANGED <<lines, readable, same_colors, objects, materials, pc, exception,
                   report, num_mol, i, starting_line, j, atoms, bonds, empty,
                   elements_in_molecule, passes>>

ElementSpec == ElementInit /\ [][CallParseElementString]_vars

\* ------------------------------------------------- create_bond on its own

GeometryInit ==
    /\ lines = <<>>
    /\ readable = TRUE
    /\ same_colors = TRUE
    /\ objects = <<>>
    /\ materials = 0
    /\ pc = "geometry"
    /\ Locals
    /\ probe \in {[source |-> s, target |-> t, called |-> FALSE, bond |-> None] :
                    s \in Points, t \in Points}

CallCreateBond ==
    /\ pc = "geometry"
    /\ ~probe.called
    /\ probe' = [probe EXCEPT !.called = TRUE, !.bond = create_bond(probe.source, probe.target)]
    /\ UNCHANGED <<lines, readable, same_colors, objects, materials, pc, exception,
                   report, num_mol, i, starting_line, j, atoms, bonds, empty,
                   elements_in_molecule, passes>>

GeometrySpec == GeometryInit /\ [][CallCreateBond]_vars

\* ------------------------------------------------------------------ claims

Terminal == pc \in {"finished", "raised"}

\* the lines of a molecule with atoms 1 and 2 and one bond line
MoleculeWithBond(b) ==
    <<MarkerLine(MOLECULE), MarkerLine(ATOM), AtomLine1, AtomLine2, MarkerLine(BOND), b>>
WellFormedMolecule == MoleculeWithBond(BondLine12)

\* pass p of this import has left a molecule of two atoms and one bond
Built(p) ==
    \E m \in 1..Len(objects) :
        /\ objects[m].pass = p
        /\ Len(Atoms(objects[m])) = 2
        /\ Len(Bonds(objects[m])) = 1

\* C1: a bond line whose target id matches no atom of its molecule fails that
\* molecule only: the import does not crash and the well-formed molecule that
\* follows in the file is built.
C1_UnresolvedBondFailsOneMolecule ==
    (Terminal /\ lines = MoleculeWithBond(BondLine13) \o WellFormedMolecule)
        => (exception = "" /\ Built(1))

\* C2, as claimed: a degenerate bond in the first molecule aborts that molecule
\* only, and the well-formed molecule that follows in the file is built.
C2_DegenerateBondAbortsOneMolecule ==
    (Terminal /\ lines = MoleculeWithBond(BondLine11) \o WellFormedMolecule)
        => Built(1)

\* C2, amended: a degenerate bond in molecule i ends the import: the molecules of
\* the passes before i are all kept, molecule i is removed and no later molecule
\* is built.
C2_DegenerateBondEndsImport ==
    (report = "ERROR" /\ readable) =>
        /\ pc = "finished"
        /\ exception = ""
        /\ \A m \in 1..Len(objects) : objects[m].pass < i
        /\ \A p \in 0..(i - 1) : \E m \in 1..Len(objects) : objects[m].pass = p

C2_Witness ==
    /\ report = "ERROR" /\ readable
    /\ i + 1 < num_mol
    /\ lines = MoleculeWithBond(BondLine11) \o WellFormedMolecule

\* C3: in the atom section a line with fewer than 5 fields is skipped and raises
\* no error, whatever same_colors is.  (IndexError is what cline[1] raises on a
\* line of the atom section with fewer than 2 fields.)
C3_ShortAtomLinesAreSkipped ==
    /\ exception # "IndexError"
    /\ (Terminal /\ lines = <<MarkerLine(MOLECULE), MarkerLine(ATOM), AtomLine1, BlankLine>>)
           => (pc = "finished" /\ report = "INFO")

\* C4: a file with k molecule lines gets exactly k passes, and every pass after
\* the first starts at the offset at which the pass before it stopped.
C4_PassesResumeWherePreviousStopped ==
    /\ \A p \in 2..Len(passes) : passes[p].start = passes[p - 1].stop
    /\ (pc = "finished" /\ report = "INFO") => Len(passes) = num_mol

\* C5: a molecule line read while the bond section is active ends the molecule
\* and is not consumed: the step creates nothing, the molecule it ends holds no
\* record of that line or a later one, and the pass that follows begins at that
\* line with both flags reset.
C5_EndedMoleculeRecords ==
    \A m \in 1..Len(objects) : \A p \in 1..Len(passes) :
        (objects[m].pass = p - 1 /\ passes[p].by = "molecule") =>
            \A c \in 1..Len(objects[m].children) :
                objects[m].children[c].line <= passes[p].stop

C5_MoleculeLineStep ==
    /\ (pc = "scan" /\ starting_line + j < Len(lines)
            /\ lines[starting_line + j + 1].marker = MOLECULE /\ bonds)
         => /\ objects' = objects
            /\ materials' = materials
            /\ pc' = "pass"
            /\ starting_line' = starting_line + j
            /\ lines[starting_line' + 1].marker = MOLECULE
    /\ (pc = "pass" /\ pc' = "scan" /\ passes # <<>>
            /\ passes[Len(passes)].by = "molecule")
         => /\ starting_line' + j' = passes[Len(passes)].stop
            /\ lines[starting_line' + j' + 1].marker = MOLECULE
            /\ ~atoms' /\ ~bonds'

C5_MoleculeLineEndsPass == [](C5_EndedMoleculeRecords) /\ [][C5_MoleculeLineStep]_vars

\* a pass has started at a molecule line that ended the pass before it
C5_Witness ==
    /\ pc = "scan" /\ j = 0 /\ Len(passes) = 2
    /\ passes[1].by = "molecule"
    /\ passes[1].stop = starting_line
    /\ starting_line > 0
    /\ Len(objects[Len(objects) - 1].children) = 3

\* C6: a file of one molecule line, the atom marker, n >= 1 atom lines, the bond
\* marker and b bond lines that join atoms of the file at distinct positions
\* gives one molecule with the n atoms and the b bonds in file order, and no
\* error.
C6_IsAtomLine(k) ==
    /\ lines[k].marker = "" /\ Len(lines[k].f) >= 5
    /\ \A t \in {1, 3, 4, 5} : IsNumber(lines[k].f[t])

\* the first atom line among lines 3..n+2 with this id, 0 if there is none
C6_AtomLineOf(id, n) ==
    LET hits == {k \in 3..(n + 2) : int(lines[k].f[1]) = id}
    IN  IF hits = {} THEN 0 ELSE CHOOSE k \in hits : \A h \in hits : k <= h

C6_Position(k) == <<int(lines[k].f[3]), int(lines[k].f[4]), int(lines[k].f[5])>>

C6_IsBondLine(k, n) ==
    /\ lines[k].marker = "" /\ Len(lines[k].f) >= 4
    /\ \A t \in {1, 2, 3} : IsNumber(lines[k].f[t])
    /\ C6_AtomLineOf(int(lines[k].f[2]), n) # 0
    /\ C6_AtomLineOf(int(lines[k].f[3]), n) # 0
    /\ C6_Position(C6_AtomLineOf(int(lines[k].f[2]), n))
           # C6_Position(C6_AtomLineOf(int(lines[k].f[3]), n))

C6_File(n, b) ==
    /\ readable
    /\ Len(lines) = n + b + 3
    /\ lines[1].marker = MOLECULE
    /\ lines[2].marker = ATOM
    /\ \A k \in 3..(n + 2) : C6_IsAtomLine(k)
    /\ lines[n + 3].marker = BOND
    /\ \A k \in (n + 4)..(n + b + 3) : C6_IsBondLine(k, n)

C6_Molecule(mol, n, b) ==
    /\ Len(mol.children) = n + b
    /\ Len(Atoms(mol)) = n
    /\ Len(Bonds(mol)) = b
    /\ \A k \in 1..n :
          /\ Atoms(mol)[k].line = k + 2
          /\ Atoms(mol)[k].atom_id = int(lines[k + 2].f[1])
          /\ Atoms(mol)[k].location = C6_Position(k + 2)
    /\ \A k \in 1..b :
          /\ Bonds(mol)[k].line = n + 3 + k
          /\ Bonds(mol)[k].bond_id = int(lines[n + 3 + k].f[1])
          /\ mol.children[Bonds(mol)[k].source].line
                = C6_AtomLineOf(int(lines[n + 3 + k].f[2]), n)
          /\ mol.children[Bonds(mol)[k].target].line
                = C6_AtomLineOf(int(lines[n + 3 + k].f[3]), n)

C6_RoundTrip ==
    \A n \in 1..Len(lines) : \A b \in 0..Len(lines) :
        (Terminal /\ C6_File(n, b)) =>
            /\ pc = "finished" /\ report = "INFO" /\ exception = ""
            /\ Cardinality({m \in 1..Len(objects) : objects[m].pass >= 0}) = 1
            /\ objects[Len(objects)].pass = 0
            /\ C6_Molecule(objects[Len(objects)], n, b)

C6_Witness ==
    /\ Terminal /\ C6_File(2, 2)
    /\ lines[3] # lines[4]
    /\ lines[6] # lines[7]
    /\ Len(objects) = 2

\* C7: a file with no molecule line is reported with a warning and nothing is
\* created: no molecule, atom, bond, material or registry entry, whatever
\* markers and record lines the file holds.
C7_NoMoleculeLine == \A k \in 1..Len(lines) : lines[k].marker # MOLECULE

C7_NoMoleculesFound ==
    (readable /\ C7_NoMoleculeLine) =>
        /\ objects \in PriorScenes
        /\ materials = (IF objects = <<>> THEN 0 ELSE 2)
        /\ passes = <<>>
        /\ pc \in {"start", "finished"}
        /\ pc = "finished" => (report = "WARNING" /\ exception = "")

C7_Witness ==
    /\ pc = "finished" /\ report = "WARNING"
    /\ \E k \in 1..Len(lines) : lines[k].marker = ATOM
    /\ \E k \in 1..Len(lines) : lines[k].marker = BOND
    /\ \E k \in 1..Len(lines) : lines[k] = AtomLine1
    /\ \E k \in 1..Len(lines) : lines[k] = BondLine12

\* C8: after a degenerate bond is reported, nothing of the molecule that was
\* being built remains: neither its empty nor any atom or bond made from the
\* lines of its pass.
C8_NoPartialMolecule ==
    (report = "ERROR" /\ readable) =>
        \A m \in 1..Len(objects) :
            /\ objects[m].pass # i
            /\ \A c \in 1..Len(objects[m].children) :
                  objects[m].children[c].line <= passes[Len(passes)].start

C8_Witness ==
    /\ report = "ERROR" /\ readable
    /\ objects # <<>>
    /\ i = 1

\* C9: a step that aborts the molecule being built (an exception leaving
\* execute, or the degenerate bond's report and clean) leaves every other
\* molecule of the scene as it was: children, atoms and element materials.
C9_Aborts == pc' = "raised" \/ (report' = "ERROR" /\ report = "")

C9_CompletedMoleculesKept ==
    [][C9_Aborts =>
          \A m \in 1..Len(objects) :
              objects[m].pass # i => (m <= Len(objects') /\ objects'[m] = objects[m])]_vars

C9_Witness ==
    /\ report = "ERROR" /\ readable
    /\ i = 1
    /\ Len(objects) = 2
    /\ objects[1] = PriorMolecule
    /\ objects[2].pass = 0 /\ Len(objects[2].children) = 3

\* C10: create_bond gives None exactly when source and target are the same
\* point; for two different points it gives a cylinder of depth > 0.
C10_DegenerateIffEqual ==
    probe.called =>
        /\ (probe.bond = None) <=> (probe.source = probe.target)
        /\ probe.bond # None => probe.bond[1].depth > 0

C10_Witness ==
    /\ probe.called
    /\ probe.source # probe.target
    /\ probe.source[1] = probe.target[1] /\ probe.source[2] = probe.target[2]
    /\ probe.bond # None

\* C11: a line read while the bond flag is set that has at least 4 fields is
\* taken as one bond record, id field[0], source id field[1], target id
\* field[2]: when the two ids name atoms of the molecule at different places,
\* the step adds exactly one bond, with that id, between the first atoms of
\* those ids; a line with fewer than 4 fields adds nothing and raises no error.
C11_FirstAtom(mol, id) ==
    LET hits == {c \in 1..Len(mol.children) :
                    mol.children[c].kind = "sphere" /\ mol.children[c].atom_id = id}
    IN  IF hits = {} THEN 0 ELSE CHOOSE c \in hits : \A h \in hits : c <= h

C11_BondLineStep ==
    (pc = "scan" /\ starting_line + j < Len(lines) /\ bonds
        /\ lines[starting_line + j + 1].marker = "")
    => LET f == lines[starting_line + j + 1].f
           mol == objects[empty]
           n == Len(mol.children)
       IN  IF Len(f) < 4
           THEN /\ objects' = objects
                /\ materials' = materials
                /\ pc' = "scan" /\ exception' = "" /\ report' = report
                /\ j' = j + 1
           ELSE LET s == C11_FirstAtom(mol, int(f[2]))
                    t == C11_FirstAtom(mol, int(f[3]))
                IN  (~atoms /\ s # 0 /\ t # 0
                        /\ mol.children[s].location # mol.children[t].location)
                    => /\ pc' = "scan" /\ exception' = "" /\ report' = report
                       /\ Len(objects') = Len(objects)
                       /\ \A m \in 1..Len(objects) : m # empty => objects'[m] = objects[m]
                       /\ Len(objects'[empty].children) = n + 1
                       /\ SubSeq(objects'[empty].children, 1, n) = mol.children
                       /\ objects'[empty].children[n + 1].kind = "cylinder"
                       /\ objects'[empty].children[n + 1].bond_id = int(f[1])
                       /\ objects'[empty].children[n + 1].source = s
                       /\ objects'[empty].children[n + 1].target = t

C12_ElementsOnce ==
    \A m \in 1..Len(objects) :
        \A a, b \in 1..Len(objects[m].element_materials) :
            objects[m].element_materials[a].element
                = objects[m].element_materials[b].element => a = b

\* a molecule of this import holds an imported material, a material made for
\* the empty element, and two atoms of one element
C12_Witness ==
    /\ pc = "finished" /\ report = "INFO"
    /\ \E m \in 1..Len(objects) :
          /\ objects[m].pass >= 0
          /\ \E e \in 1..Len(objects[m].element_materials) :
                /\ objects[m].element_materials[e].element = <<>>
                /\ objects[m].element_materials[e].material > PriorAtom2.materials
          /\ \E e \in 1..Len(objects[m].element_materials) :
                objects[m].element_materials[e].material <= PriorAtom2.materials
          /\ \E a, b \in 1..Len(objects[m].children) :
                /\ a # b
                /\ objects[m].children[a].element = objects[m].children[b].element

\* C13: check_element_and_assign_material called twice for one molecule and one
\* element gives the atom the same material both times, and the second call
\* leaves the element materials of the molecule as the first call left them:
\* no entry more, none moved.
C13_AssignTwice ==
    (pc = "assign" /\ Len(probe.returned) = 2) =>
        /\ probe.returned[1] = probe.returned[2]
        /\ probe.returned[1] # 0
        /\ objects[1].element_materials = probe.before[2]

\* the element was new to a molecule that has two others: the first call made
\* a material and an entry, the second found them
C13_Witness ==
    /\ pc = "assign" /\ Len(probe.returned) = 2
    /\ Len(probe.before[1]) = 2
    /\ \A e \in 1..2 : probe.before[1][e].element # probe.element
    /\ Len(probe.before[2]) = 3
    /\ probe.returned[2] = materials

\* C14: import_materials gives the new molecule an entry only for an element of
\* elements_in_molecule that a molecule with atoms has; each element once, with
\* the material of the first molecule, in the order of bpy.data.objects, that
\* has the element; the entries stand in the order in which they were first
\* met, and every such element is imported.
C14_Candidates == {m \in 1..(empty - 1) : \E c \in 1..Len(objects[m].children) :
                                              objects[m].children[c].listed}

C14_Offers(m, element) ==
    \E e \in 1..Len(objects[m].element_materials) :
        objects[m].element_materials[e].element = element

\* <<m, e>>: the first candidate m with the element and the entry e it has
C14_First(element) ==
    LET m == CHOOSE c \in C14_Candidates :
                 /\ C14_Offers(c, element)
                 /\ \A d \in C14_Candidates : C14_Offers(d, element) => c <= d
        e == CHOOSE k \in 1..Len(objects[m].element_materials) :
                 /\ objects[m].element_materials[k].element = element
                 /\ \A h \in 1..(k - 1) : objects[m].element_materials[h].element # element
    IN  <<m, e>>

C14_ImportFrom ==
    pc = "imported" =>
        LET imported == objects[empty].element_materials
            allowed == {elements_in_molecule[k] : k \in 1..Len(elements_in_molecule)}
        IN  /\ \A k \in 1..Len(imported) :
                  /\ imported[k].element \in allowed
                  /\ \E m \in C14_Candidates : C14_Offers(m, imported[k].element)
                  /\ imported[k] = objects[C14_First(imported[k].element)[1]]
                                       .element_materials[C14_First(imported[k].element)[2]]
            /\ \A k, l \in 1..Len(imported) :
                  /\ imported[k].element = imported[l].element => k = l
                  /\ k < l =>
                        \/ C14_First(imported[k].element)[1] < C14_First(imported[l].element)[1]
                        \/ /\ C14_First(imported[k].element)[1] = C14_First(imported[l].element)[1]
                           /\ C14_First(imported[k].element)[2] < C14_First(imported[l].element)[2]
            /\ \A element \in allowed :
                  (\E m \in C14_Candidates : C14_Offers(m, element))
                      => \E k \in 1..Len(imported) : imported[k].element = element

\* both molecules of the scene have O, with different materials, and the first
\* has C, which is not asked for: the new molecule has the first one's O and
\* the second one's empty element, and no C
C14_Witness ==
    /\ pc = "imported"
    /\ Len(objects) = 3
    /\ Elements(objects[1].element_materials) = {<<"C">>, <<"O">>}
    /\ Elements(objects[2].element_materials) = {<<"O">>, <<>>}
    /\ elements_in_molecule = << <<>>, <<"O">> >>
    /\ Len(objects[3].element_materials) = 2
    /\ objects[3].element_materials[1].element = <<"O">>
    /\ objects[3].element_materials[1].material
          = find_material_from_element(objects[1].element_materials, <<"O">>)
    /\ objects[3].element_materials[1].material
          # find_material_from_element(objects[2].element_materials, <<"O">>)
    /\ objects[3].element_materials[2].element = <<>>

\* C15: with same_colors on, the step that starts a molecule leaves it without
\* atoms and with element materials taken from the molecules built before it,
\* for elements of its atom lines only; every atom then built whose element a
\* molecule before it has carries the material of the first such molecule, not
\* a new one, and a completed molecule has no entry for an element none of its
\* atoms has.  With same_colors off the molecule starts with no entry and
\* shares no material with another molecule.
C15_HasAtoms(m) == \E c \in 1..Len(objects[m].children) : objects[m].children[c].listed

C15_Has(m, element) ==
    \E e \in 1..Len(objects[m].element_materials) :
        objects[m].element_materials[e].element = element

C15_Before(m, element) == {p \in 1..(m - 1) : C15_HasAtoms(p) /\ C15_Has(p, element)}

\* the material the first molecule before m with the element has for it
C15_MaterialBefore(m, element) ==
    LET p == CHOOSE c \in C15_Before(m, element) : \A d \in C15_Before(m, element) : c <= d
        e == CHOOSE k \in 1..Len(objects[p].element_materials) :
                 objects[p].element_materials[k].element = element
    IN  objects[p].element_materials[e].material

C15_Shared ==
    \A m \in 1..Len(objects) : objects[m].pass >= 0 =>
        /\ \A c \in 1..Len(objects[m].children) :
              (objects[m].children[c].listed
                  /\ C15_Before(m, objects[m].children[c].element) # {})
              => objects[m].children[c].material
                     = C15_MaterialBefore(m, objects[m].children[c].element)
        /\ (pc = "finished" /\ report = "INFO") =>
              \A e \in 1..Len(objects[m].element_materials) :
                  \E c \in 1..Len(objects[m].children) :
                      /\ objects[m].children[c].listed
                      /\ objects[m].children[c].element
                            = objects[m].element_materials[e].element

C15_NotShared ==
    \A m \in 1..Len(objects) : objects[m].pass >= 0 =>
        \A p \in 1..Len(objects) : p # m =>
            \A e \in 1..Len(objects[m].element_materials) :
                \A k \in 1..Len(objects[p].element_materials) :
                    objects[m].element_materials[e].material
                        # objects[p].element_materials[k].material

C15_PassStarts ==
    (pc = "pass" /\ pc' = "scan") =>
        LET new == objects'[empty'] IN
        /\ Len(objects') = Len(objects) + 1
        /\ empty' = Len(objects')
        /\ new.children = <<>>
        /\ ~same_colors => new.element_materials = <<>>
        /\ same_colors =>
              \A e \in 1..Len(new.element_materials) :
                  /\ \E k \in 1..Len(elements_in_molecule') :
                        elements_in_molecule'[k] = new.element_materials[e].element
                  /\ C15_Before(empty', new.element_materials[e].element) # {}
                  /\ new.element_materials[e].material
                        = C15_MaterialBefore(empty', new.element_materials[e].element)

C15_SameColors ==
    /\ []((same_colors => C15_Shared) /\ (~same_colors => C15_NotShared))
    /\ [][C15_PassStarts]_vars

\* C16: the step that starts a molecule and imports materials into it leaves
\* every molecule that was in the scene as it was: the entries of its element
\* materials, their order and the material of each.
C16_ImportStep ==
    (pc = "pass" /\ i < num_mol) =>
        /\ Len(objects') = Len(objects) + 1
        /\ \A m \in 1..Len(objects) :
              /\ objects'[m].element_materials = objects[m].element_materials
              /\ objects'[m].children = objects[m].children

C16_SourcesUnchanged == [][C16_ImportStep]_vars

\* a molecule has just been started with a material from each of the two
\* earlier molecules, which have their two entries each
C16_Witness ==
    /\ same_colors /\ pc = "scan" /\ j = 0
    /\ Len(objects) = 3
    /\ objects[1] = PriorMolecule2 /\ objects[2] = PriorMolecule
    /\ objects[3].element_materials
          = << PriorMolecule2.element_materials[1], PriorMolecule.element_materials[1] >>

\* C17: in every molecule, every atom carries the material that the molecule's
\* element materials hold for the atom's element, so two atoms of one molecule
\* and one element carry the same material; and every element of the element
\* materials is the element of an atom of the molecule or was imported with
\* its material from a molecule before it.
C17_Entries(m, element) ==
    {e \in 1..Len(objects[m].element_materials) :
        objects[m].element_materials[e].element = element}

C17_AtomColours ==
    \A m \in 1..Len(objects) :
        /\ \A c \in 1..Len(objects[m].children) :
              objects[m].children[c].listed =>
                  /\ Cardinality(C17_Entries(m, objects[m].children[c].element)) = 1
                  /\ \A e \in C17_Entries(m, objects[m].children[c].element) :
                        objects[m].element_materials[e].material
                            = objects[m].children[c].material
        /\ \A c, d \in 1..Len(objects[m].children) :
              (objects[m].children[c].listed /\ objects[m].children[d].listed
                  /\ objects[m].children[c].element = objects[m].children[d].element)
              => objects[m].children[c].material = objects[m].children[d].material
        /\ \A e \in 1..Len(objects[m].element_materials) :
              \/ \E c \in 1..Len(objects[m].children) :
                    /\ objects[m].children[c].listed
                    /\ objects[m].children[c].element
                          = objects[m].element_materials[e].element
              \/ \E p \in 1..(m - 1) : \E k \in 1..Len(objects[p].element_materials) :
                    objects[p].element_materials[k] = objects[m].element_materials[e]

\* a completed molecule of two C atoms with the imported material of C and an
\* atom of the empty element with a material made for it
C17_Witness ==
    /\ same_colors /\ pc = "finished" /\ report = "INFO"
    /\ Len(objects) = 2
    /\ objects[1] = PriorMolecule
    /\ Len(Atoms(objects[2])) = 3
    /\ Atoms(objects[2])[1].element = <<"C">>
    /\ Atoms(objects[2])[2].element = <<"C">>
    /\ Atoms(objects[2])[1].material = PriorMolecule.children[1].material
    /\ Atoms(objects[2])[3].element = <<>>
    /\ Atoms(objects[2])[3].material = materials
    /\ Len(objects[2].element_materials) = 2

\* C18: parse_element_string returns, for every string, a string of 0, 1 or 2
\* characters: the first uppercase letter of the string and the first lowercase
\* letter behind it, if there is one, digits taking no part; the empty string
\* when the string has no uppercase letter.  "C.3" gives "C", "Na" gives "Na",
\* "O2" gives "O", "CL1" gives "C" and "123" gives "".
C18_Element(string) ==
    LET ups == {k \in 1..Len(string) : string[k] \in Uppers}
    IN  IF ups = {} THEN <<>>
        ELSE LET p == CHOOSE k \in ups : \A h \in ups : k <= h
                 lows == {k \in (p + 1)..Len(string) : string[k] \in Lowers}
             IN  IF lows = {} THEN <<string[p]>>
                 ELSE <<string[p], string[CHOOSE k \in lows : \A h \in lows : k <= h]>>

C18_Normalize ==
    probe.called =>
        /\ Len(probe.element) \in {0, 1, 2}
        /\ probe.element = C18_Element(probe.string)
        /\ \A k \in 1..Len(probe.element) : probe.element[k] \notin Digits
        /\ probe.string = TC3 => probe.element = <<"C">>
        /\ probe.string = <<"N", "a">> => probe.element = <<"N", "a">>
        /\ probe.string = TO2 => probe.element = <<"O">>
        /\ probe.string = <<"C", "L", "1">> => probe.element = <<"C">>
        /\ probe.string = <<"1", "2", "3">> => probe.element = <<>>

\* the lowercase letter is taken from behind a digit and a dot
C18_Witness ==
    /\ probe.called
    /\ probe.string = <<"C", "1", ".", "a">>
    /\ probe.element = <<"C", "a">>

\* C19: at every line of every pass at most one of the flags atoms and bonds is
\* set, whatever the order of the atom and bond markers, and no line of the
\* file has made both an atom and a bond of one molecule.
C19_OneSection ==
    /\ ~(atoms /\ bonds)
    /\ \A m \in 1..Len(objects) : \A c, d \in 1..Len(objects[m].children) :
          (objects[m].pass >= 0
              /\ objects[m].children[c].kind = "sphere"
              /\ objects[m].children[d].kind = "cylinder")
          => objects[m].children[c].line # objects[m].children[d].line

\* C20: with same_colors on, when a pass has ended without error the elements
\* list_materials_in_molecule returned for the molecule are the elements of
\* the atoms the pass has built for it, and the list was made before the
\* molecule had an atom.
C20_Listed == {elements_in_molecule[k] : k \in 1..Len(elements_in_molecule)}

C20_BuiltElements ==
    {objects[empty].children[c].element :
        c \in {d \in 1..Len(objects[empty].children) :
                  objects[empty].children[d].kind = "sphere"}}

C20_PassEnded ==
    /\ same_colors /\ passes # <<>>
    /\ pc = "pass" \/ (pc = "finished" /\ report = "INFO")

C20_PrePassStep ==
    (same_colors /\ pc = "pass" /\ pc' = "scan") => objects'[empty'].children = <<>>

C20_PrePassMatchesBuild ==
    /\ [](C20_PassEnded => C20_Listed = C20_BuiltElements)
    /\ [][C20_PrePassStep]_vars

\* C21: no line of the file has made more than one object of the import: two
\* different atoms or bonds, of one molecule or of two, never come from the
\* same line.
C21_EachLineOnce ==
    \A m, p \in 1..Len(objects) :
        (objects[m].pass >= 0 /\ objects[p].pass >= 0) =>
            \A c \in 1..Len(objects[m].children) : \A d \in 1..Len(objects[p].children) :
                objects[m].children[c].line = objects[p].children[d].line
                    => (m = p /\ c = d)

\* C22: the assertion of import_materials never fails: no import ends with
\* AssertionError, and a molecule that has just been started with same_colors
\* on holds nothing but what import_materials has taken from the molecules
\* before it.
C22_AssertionHolds ==
    /\ exception # "AssertionError"
    /\ (same_colors /\ pc = "scan" /\ j = 0) =>
          /\ empty = Len(objects)
          /\ \A e \in 1..Len(objects[empty].element_materials) :
                \E m \in 1..(empty - 1) : \E k \in 1..Len(objects[m].element_materials) :
                    objects[m].element_materials[k] = objects[empty].element_materials[e]

\* import_materials has returned for the second molecule of the file, with
\* two molecules of earlier imports and the first molecule of the file, which
\* all have element materials, in the scene
C22_Witness ==
    /\ same_colors /\ pc = "scan" /\ j = 0 /\ i = 1
    /\ Len(objects) = 4
    /\ \A m \in 1..3 : objects[m].element_materials # <<>>
    /\ objects[4].element_materials # <<>>

====
